---- MODULE Spec2Model ----
(***************************************************************************)
(* winit-ext: the ownership-transfer cell (src/src/takeable.rs), the       *)
(* phase-typed state machine and the host callback adapter                 *)
(* (src/src/lib.rs), driven by a host event loop that may deliver any      *)
(* callback at any time.  Phase payloads follow the example applications   *)
(* (src/examples).                                                         *)
(***************************************************************************)
EXTENDS Naturals, FiniteSets, Sequences, TLC

\* Bound: the host hands out at most this many windows over one run.
MaxWindows == 3

\* Bound: the clock is observed up to this instant.
MaxClock == 2

\* Instants at which the application may have been constructed.
StartTimes == {0, 1}
WindowEvents == {"RedrawRequested", "CloseRequested"}

Errors == {"e1", "e2"}
LoopErrors == {"loop_err"}
StartCauses == {"Init", "Poll", "WaitCancelled"}
WindowAttributes == {"a1", "a2"}
Contexts == {"c1", "c2"}
Phases == {"Uninitialized", "Resumed", "Suspended", "Exited"}
Callbacks == {"new_events", "user_event", "device_event", "about_to_wait",
              "suspended", "exiting", "memory_warning", "resumed",
              "window_event"}

VARIABLES
    cell,       \* Takeable<Result<State, Error>>: the Option inside the cell
    pc,         \* "idle" (loop running, between callbacks), "closure" (a
                \* callback is inside Takeable::transition, f has run, its
                \* value is not yet stored), "returned" (run_app returned),
                \* "aborted" (a panic unwound out of run_app)
    pending,    \* outcome of the closure f while pc = "closure"
    created,    \* number of create_window calls so far
    live,       \* window handles not yet dropped
    exits,      \* number of event_loop.exit() calls issued by the Adapter
    fault,      \* kind of the most recent panic, "none" before the first
    result,     \* value returned by run_app
    last,       \* the most recent callback (history)
    firstErr,   \* first error returned by a state-machine operation (history)
    shutdown,   \* what run_app saw when the host loop returned (history)
    clock,      \* the monotonic clock read by Instant::now / elapsed
    elapsed,    \* <<dt>> for the dt of the most recent redraw, <<>> before
    host,       \* lifecycle position of the host loop
    initial     \* the Uninitialized payload run_app was given (history)

vars == <<cell, pc, pending, created, live, exits, fault, result, last,
          firstErr, shutdown, clock, elapsed, host, initial>>

(***************************************************************************)
(* Values                                                                  *)
(***************************************************************************)
Empty == [tag |-> "None"]
Some(v) == [tag |-> "Some", val |-> v]

State(phase, payload) == [phase |-> phase, payload |-> payload]
Ok(state) == [ok |-> TRUE, state |-> state]
Err(e) == [ok |-> FALSE, err |-> e]

Uninitialized(attrs, ctx, start) ==
    [window_attributes |-> attrs, context |-> ctx, start_time |-> start]
Suspended(attrs, ctx, start) ==
    [window_attributes |-> attrs, context |-> ctx, start_time |-> start]
Resumed(attrs, ctx, start, w) ==
    [window_attributes |-> attrs, context |-> ctx, start_time |-> start,
     window |-> w]
Exited(ctx) == [context |-> ctx]

NoResult == [kind |-> "none"]
NoPending == [abort |-> FALSE, none |-> TRUE]
NoCall == [cb |-> "none", cause |-> "none", before |-> Empty, op |-> "none",
           event |-> "none", exit |-> FALSE, fault |-> "none"]
NoShutdown == [loop |-> "running"]

\* Dropping a phase value releases the window it owns, if any.
Drop(state, lv) ==
    IF state.phase = "Resumed" THEN lv \ {state.payload.window} ELSE lv

(***************************************************************************)
(* State-machine operations.  `fail` is the operation's outcome chosen by  *)
(* the application/host: "none" for success, otherwise the error returned. *)
(* Each returns the Result plus the window bookkeeping it caused.          *)
(***************************************************************************)
OpOk(payload, c, lv) ==
    [ok |-> TRUE, payload |-> payload, created |-> c, live |-> lv]
OpErr(e, c, lv) == [ok |-> FALSE, err |-> e, created |-> c, live |-> lv]

\* ApplicationUninitialized::initialize
initialize(self, fail, c, lv) ==
    IF fail # "none"
    THEN OpErr(fail, c, lv)
    ELSE OpOk(Resumed(self.window_attributes, self.context, self.start_time,
                      c + 1),
              c + 1, lv \cup {c + 1})

\* ApplicationResumed::handle and ApplicationSuspended::handle
handle(phase, self, event, fail, c, lv) ==
    IF fail # "none"
    THEN OpErr(fail, c, Drop(State(phase, self), lv))
    ELSE OpOk(self, c, lv)

\* Variant: the Suspended payload is rebuilt with a fresh start instant.
suspend_resets_start_time(self, fail, c, lv) ==
    IF fail # "none"
    THEN OpErr(fail, c, lv \ {self.window})
    ELSE OpOk(Suspended(self.window_attributes, self.context, 0),
              c, lv \ {self.window})

\* Variant: the window outlives the Resumed payload.
suspend_keeps_window(self, fail, c, lv) ==
    IF fail # "none"
    THEN OpErr(fail, c, lv)
    ELSE OpOk(Suspended(self.window_attributes, self.context, self.start_time),
              c, lv)

\* ApplicationResumed::suspend
suspend(self, fail, c, lv) ==
    IF fail # "none"
    THEN OpErr(fail, c, lv \ {self.window})
    ELSE OpOk(Suspended(self.window_attributes, self.context, self.start_time),
              c, lv \ {self.window})

\* ApplicationSuspended::resume
resume(self, fail, c, lv) ==
    IF fail # "none"
    THEN OpErr(fail, c, lv)
    ELSE OpOk(Resumed(self.window_attributes, self.context, self.start_time,
                      c + 1),
              c + 1, lv \cup {c + 1})

\* Variant: the window is not released on exit.
exit_leaks_window(phase, self, fail, c, lv) ==
    IF fail # "none"
    THEN OpErr(fail, c, Drop(State(phase, self), lv))
    ELSE OpOk(Exited(self.context), c, lv)

\* ApplicationResumed::exit and ApplicationSuspended::exit
exit(phase, self, fail, c, lv) ==
    IF fail # "none"
    THEN OpErr(fail, c, Drop(State(phase, self), lv))
    ELSE OpOk(Exited(self.context), c, Drop(State(phase, self), lv))

(***************************************************************************)
(* Outcome of a closure passed to Adapter::transition                      *)
(***************************************************************************)
\* `State::X(op(..)?)` wrapped in Ok(..): the operation ran and returned r.
Returned(r, next, opname, ev) ==
    [abort |-> FALSE,
     val |-> IF r.ok THEN Ok(State(next, r.payload)) ELSE Err(r.err),
     created |-> r.created, live |-> r.live, op |-> opname, event |-> ev]

\* `State::X(state)`: the phase value is handed back untouched.
Same(state, c, lv) ==
    [abort |-> FALSE, val |-> Ok(state), created |-> c, live |-> lv,
     op |-> "none", event |-> "none"]

\* unreachable!("invalid transition"): the closure never returns and the
\* phase value it was given is dropped by the unwinding.
invalid_transition(state, c, lv) ==
    [abort |-> TRUE, created |-> c, live |-> Drop(state, lv),
     op |-> "none", event |-> "none"]

\* Variant: the start cause is not examined.
new_events_closure_any_cause(state, cause, fail, c, lv) ==
    CASE state.phase = "Uninitialized" ->
            Returned(initialize(state.payload, fail, c, lv),
                     "Resumed", "initialize", "none")
      [] state.phase = "Resumed" ->
            Returned(handle("Resumed", state.payload, "NewEvents", fail, c, lv),
                     "Resumed", "handle", "NewEvents")
      [] state.phase = "Suspended" ->
            Returned(handle("Suspended", state.payload, "NewEvents", fail, c, lv),
                     "Suspended", "handle", "NewEvents")
      [] state.phase = "Exited" -> invalid_transition(state, c, lv)

new_events_closure(state, cause, fail, c, lv) ==
    CASE state.phase = "Uninitialized" ->
            IF cause = "Init"
            THEN Returned(initialize(state.payload, fail, c, lv),
                          "Resumed", "initialize", "none")
            ELSE invalid_transition(state, c, lv)
      [] state.phase = "Resumed" ->
            Returned(handle("Resumed", state.payload, "NewEvents", fail, c, lv),
                     "Resumed", "handle", "NewEvents")
      [] state.phase = "Suspended" ->
            Returned(handle("Suspended", state.payload, "NewEvents", fail, c, lv),
                     "Suspended", "handle", "NewEvents")
      [] state.phase = "Exited" -> invalid_transition(state, c, lv)

user_event_closure(state, fail, c, lv) ==
    CASE state.phase = "Uninitialized" -> invalid_transition(state, c, lv)
      [] state.phase = "Resumed" ->
            Returned(handle("Resumed", state.payload, "UserEvent", fail, c, lv),
                     "Resumed", "handle", "UserEvent")
      [] state.phase = "Suspended" ->
            Returned(handle("Suspended", state.payload, "UserEvent", fail, c, lv),
                     "Suspended", "handle", "UserEvent")
      [] state.phase = "Exited" -> invalid_transition(state, c, lv)

device_event_closure(state, fail, c, lv) ==
    CASE state.phase = "Uninitialized" -> invalid_transition(state, c, lv)
      [] state.phase = "Resumed" ->
            Returned(handle("Resumed", state.payload, "DeviceEvent", fail, c, lv),
                     "Resumed", "handle", "DeviceEvent")
      [] state.phase = "Suspended" ->
            Returned(handle("Suspended", state.payload, "DeviceEvent", fail, c, lv),
                     "Suspended", "handle", "DeviceEvent")
      [] state.phase = "Exited" -> invalid_transition(state, c, lv)

about_to_wait_closure(state, fail, c, lv) ==
    CASE state.phase = "Uninitialized" -> invalid_transition(state, c, lv)
      [] state.phase = "Resumed" ->
            Returned(handle("Resumed", state.payload, "AboutToWait", fail, c, lv),
                     "Resumed", "handle", "AboutToWait")
      [] state.phase = "Suspended" ->
            Returned(handle("Suspended", state.payload, "AboutToWait", fail, c, lv),
                     "Suspended", "handle", "AboutToWait")
      [] state.phase = "Exited" -> invalid_transition(state, c, lv)

memory_warning_closure(state, fail, c, lv) ==
    CASE state.phase = "Uninitialized" -> invalid_transition(state, c, lv)
      [] state.phase = "Resumed" ->
            Returned(handle("Resumed", state.payload, "MemoryWarning", fail, c, lv),
                     "Resumed", "handle", "MemoryWarning")
      [] state.phase = "Suspended" ->
            Returned(handle("Suspended", state.payload, "MemoryWarning", fail, c, lv),
                     "Suspended", "handle", "MemoryWarning")
      [] state.phase = "Exited" -> invalid_transition(state, c, lv)

\* Variant: the Resumed arm wraps the result of suspend in State::Resumed.
suspended_closure_wrong_variant(state, fail, c, lv) ==
    CASE state.phase = "Uninitialized" -> invalid_transition(state, c, lv)
      [] state.phase = "Resumed" ->
            Returned(suspend(state.payload, fail, c, lv),
                     "Resumed", "suspend", "none")
      [] state.phase = "Suspended" -> Same(state, c, lv)
      [] state.phase = "Exited" -> invalid_transition(state, c, lv)

suspended_closure(state, fail, c, lv) ==
    CASE state.phase = "Uninitialized" -> invalid_transition(state, c, lv)
      [] state.phase = "Resumed" ->
            Returned(suspend(state.payload, fail, c, lv),
                     "Suspended", "suspend", "none")
      [] state.phase = "Suspended" -> Same(state, c, lv)
      [] state.phase = "Exited" -> invalid_transition(state, c, lv)

\* Variant: a second exiting is tolerated.
exiting_closure_idempotent(state, fail, c, lv) ==
    CASE state.phase = "Uninitialized" -> invalid_transition(state, c, lv)
      [] state.phase = "Resumed" ->
            Returned(exit("Resumed", state.payload, fail, c, lv),
                     "Exited", "exit", "none")
      [] state.phase = "Suspended" ->
            Returned(exit("Suspended", state.payload, fail, c, lv),
                     "Exited", "exit", "none")
      [] state.phase = "Exited" -> Same(state, c, lv)

\* Variant: exiting before the start signal exits early.
exiting_closure_early_exit(state, fail, c, lv) ==
    CASE state.phase = "Uninitialized" ->
            Returned(exit("Uninitialized", state.payload, fail, c, lv),
                     "Exited", "exit", "none")
      [] state.phase = "Resumed" ->
            Returned(exit("Resumed", state.payload, fail, c, lv),
                     "Exited", "exit", "none")
      [] state.phase = "Suspended" ->
            Returned(exit("Suspended", state.payload, fail, c, lv),
                     "Exited", "exit", "none")
      [] state.phase = "Exited" -> invalid_transition(state, c, lv)

exiting_closure(state, fail, c, lv) ==
    CASE state.phase = "Uninitialized" -> invalid_transition(state, c, lv)
      [] state.phase = "Resumed" ->
            Returned(exit("Resumed", state.payload, fail, c, lv),
                     "Exited", "exit", "none")
      [] state.phase = "Suspended" ->
            Returned(exit("Suspended", state.payload, fail, c, lv),
                     "Exited", "exit", "none")
      [] state.phase = "Exited" -> invalid_transition(state, c, lv)

\* Variant: resumed before the start signal acquires the window.
resumed_closure_from_uninitialized(state, fail, c, lv) ==
    CASE state.phase = "Uninitialized" ->
            Returned(resume(state.payload, fail, c, lv),
                     "Resumed", "resume", "none")
      [] state.phase = "Resumed" -> Same(state, c, lv)
      [] state.phase = "Suspended" ->
            Returned(resume(state.payload, fail, c, lv),
                     "Resumed", "resume", "none")
      [] state.phase = "Exited" -> invalid_transition(state, c, lv)

\* Variant: resumed while already Resumed is rejected.
resumed_closure_strict(state, fail, c, lv) ==
    CASE state.phase = "Uninitialized" -> invalid_transition(state, c, lv)
      [] state.phase = "Resumed" -> invalid_transition(state, c, lv)
      [] state.phase = "Suspended" ->
            Returned(resume(state.payload, fail, c, lv),
                     "Resumed", "resume", "none")
      [] state.phase = "Exited" -> invalid_transition(state, c, lv)

\* Variant: resumed while already Resumed acquires a window again.
resumed_closure_reacquires(state, fail, c, lv) ==
    CASE state.phase = "Uninitialized" -> invalid_transition(state, c, lv)
      [] state.phase = "Resumed" ->
            Returned(resume(state.payload, fail, c, lv),
                     "Resumed", "resume", "none")
      [] state.phase = "Suspended" ->
            Returned(resume(state.payload, fail, c, lv),
                     "Resumed", "resume", "none")
      [] state.phase = "Exited" -> invalid_transition(state, c, lv)

resumed_closure(state, fail, c, lv) ==
    CASE state.phase = "Uninitialized" -> invalid_transition(state, c, lv)
      [] state.phase = "Resumed" -> Same(state, c, lv)
      [] state.phase = "Suspended" ->
            Returned(resume(state.payload, fail, c, lv),
                     "Resumed", "resume", "none")
      [] state.phase = "Exited" -> invalid_transition(state, c, lv)

\* Variant: a window event while Suspended is ignored.
window_event_closure_tolerant(state, fail, c, lv) ==
    CASE state.phase = "Uninitialized" -> invalid_transition(state, c, lv)
      [] state.phase = "Resumed" ->
            Returned(handle("Resumed", state.payload, "WindowEvent", fail, c, lv),
                     "Resumed", "handle", "WindowEvent")
      [] state.phase = "Suspended" -> Same(state, c, lv)
      [] state.phase = "Exited" -> invalid_transition(state, c, lv)

window_event_closure(state, fail, c, lv) ==
    CASE state.phase = "Uninitialized" -> invalid_transition(state, c, lv)
      [] state.phase = "Resumed" ->
            Returned(handle("Resumed", state.payload, "WindowEvent", fail, c, lv),
                     "Resumed", "handle", "WindowEvent")
      [] state.phase = "Suspended" -> invalid_transition(state, c, lv)
      [] state.phase = "Exited" -> invalid_transition(state, c, lv)

\* The closure each ApplicationHandler method passes to Adapter::transition.
Closure(cb, cause, state, fail, c, lv) ==
    CASE cb = "new_events" -> new_events_closure(state, cause, fail, c, lv)
      [] cb = "user_event" -> user_event_closure(state, fail, c, lv)
      [] cb = "device_event" -> device_event_closure(state, fail, c, lv)
      [] cb = "about_to_wait" -> about_to_wait_closure(state, fail, c, lv)
      [] cb = "suspended" -> suspended_closure(state, fail, c, lv)
      [] cb = "exiting" -> exiting_closure(state, fail, c, lv)
      [] cb = "memory_warning" -> memory_warning_closure(state, fail, c, lv)
      [] cb = "resumed" -> resumed_closure(state, fail, c, lv)
      [] cb = "window_event" -> window_event_closure(state, fail, c, lv)

(***************************************************************************)
(* Adapter::transition: the closure handed to Takeable::transition.        *)
(* fallible_state.and_then(|state| f(state).inspect_err(|_| exit()))       *)
(* The result carries `exit`, whether event_loop.exit() was called.        *)
(***************************************************************************)
\* Variant: the stored Result is unwrapped instead of chained with and_then.
AdapterClosure_unwrap(fallible_state, cb, cause, fail, c, lv) ==
    IF fallible_state.ok
    THEN LET r == Closure(cb, cause, fallible_state.state, fail, c, lv)
         IN  r @@ [exit |-> (~r.abort) /\ (~r.val.ok)]
    ELSE [abort |-> TRUE, created |-> c, live |-> lv, op |-> "none",
          event |-> "none", exit |-> FALSE]

\* Variant: inspect instead of inspect_err.
AdapterClosure_inspect_ok(fallible_state, cb, cause, fail, c, lv) ==
    IF fallible_state.ok
    THEN LET r == Closure(cb, cause, fallible_state.state, fail, c, lv)
         IN  r @@ [exit |-> (~r.abort) /\ r.val.ok]
    ELSE [abort |-> FALSE, val |-> fallible_state, created |-> c,
          live |-> lv, op |-> "none", event |-> "none", exit |-> FALSE]

\* Variant: inspect_err is applied outside and_then, so a stored error
\* requests exit again on every callback.
AdapterClosure_inspect_outside(fallible_state, cb, cause, fail, c, lv) ==
    IF fallible_state.ok
    THEN LET r == Closure(cb, cause, fallible_state.state, fail, c, lv)
         IN  r @@ [exit |-> (~r.abort) /\ (~r.val.ok)]
    ELSE [abort |-> FALSE, val |-> fallible_state, created |-> c,
          live |-> lv, op |-> "none", event |-> "none", exit |-> TRUE]

\* Variant: the error is passed on without requesting loop exit.
AdapterClosure_no_exit_request(fallible_state, cb, cause, fail, c, lv) ==
    IF fallible_state.ok
    THEN LET r == Closure(cb, cause, fallible_state.state, fail, c, lv)
         IN  r @@ [exit |-> FALSE]
    ELSE [abort |-> FALSE, val |-> fallible_state, created |-> c,
          live |-> lv, op |-> "none", event |-> "none", exit |-> FALSE]

AdapterClosure(fallible_state, cb, cause, fail, c, lv) ==
    IF fallible_state.ok
    THEN LET r == Closure(cb, cause, fallible_state.state, fail, c, lv)
         IN  r @@ [exit |-> (~r.abort) /\ (~r.val.ok)]
    ELSE [abort |-> FALSE, val |-> fallible_state, created |-> c,
          live |-> lv, op |-> "none", event |-> "none", exit |-> FALSE]

(***************************************************************************)
(* Takeable                                                                *)
(***************************************************************************)
\* Takeable::new
TakeableNew(value) == Some(value)

\* Variant: the value is read but left in the cell.
TakeableTake_keep(c) ==
    IF c.tag = "Some"
    THEN [abort |-> FALSE, val |-> c.val, cell |-> c]
    ELSE [abort |-> TRUE, cell |-> c]

\* self.0.take().unwrap_or_else(|| unreachable!()): the value moved out of
\* the cell and what the cell holds afterwards; panics on None.
TakeableTake(c) ==
    IF c.tag = "Some"
    THEN [abort |-> FALSE, val |-> c.val, cell |-> Empty]
    ELSE [abort |-> TRUE, cell |-> c]

\* Variant: only an Ok result is stored back.
TakeableStore_only_ok(v) == IF v.ok THEN Some(v) ELSE Empty

\* self.0 = Some(..)
TakeableStore(v) == Some(v)

\* Takeable::get
TakeableGet(c) ==
    IF c.tag = "Some"
    THEN [abort |-> FALSE, val |-> c.val]
    ELSE [abort |-> TRUE]

\* The Adapter (and the cell in it) no longer exists: consumed by
\* Adapter::exit or dropped when run_app is left.
Gone == [tag |-> "Gone"]

(***************************************************************************)
(* Adapter::new / Adapter::exit                                            *)
(***************************************************************************)
AdapterNew(state) == TakeableNew(Ok(State("Uninitialized", state)))

\* Variant: every phase is turned into an Exited payload at shutdown.
AdapterExit_any_phase(c) ==
    LET g == TakeableGet(c) IN
    IF g.abort THEN [abort |-> TRUE, fault |-> "poisoned"]
    ELSE IF ~g.val.ok THEN [abort |-> FALSE, val |-> Err(g.val.err)]
    ELSE [abort |-> FALSE,
          val |-> [ok |-> TRUE,
                   payload |-> Exited(g.val.state.payload.context)]]

\* Variant: a stored application error is unwrapped at shutdown.
AdapterExit_unwrap(c) ==
    LET g == TakeableGet(c) IN
    IF g.abort THEN [abort |-> TRUE, fault |-> "poisoned"]
    ELSE IF ~g.val.ok THEN [abort |-> TRUE, fault |-> "invalid_transition"]
    ELSE IF g.val.state.phase = "Exited"
         THEN [abort |-> FALSE,
               val |-> [ok |-> TRUE, payload |-> g.val.state.payload]]
         ELSE [abort |-> TRUE, fault |-> "invalid_transition"]

\* Ok(match self.0.get()? { Exited(state) => state, _ => invalid_transition() })
AdapterExit(c) ==
    LET g == TakeableGet(c) IN
    IF g.abort THEN [abort |-> TRUE, fault |-> "poisoned"]
    ELSE IF ~g.val.ok THEN [abort |-> FALSE, val |-> Err(g.val.err)]
    ELSE IF g.val.state.phase = "Exited"
         THEN [abort |-> FALSE,
               val |-> [ok |-> TRUE, payload |-> g.val.state.payload]]
         ELSE [abort |-> TRUE, fault |-> "invalid_transition"]

(***************************************************************************)
(* Initial state: run_app has built the Adapter and entered the host loop. *)
(***************************************************************************)
InitAt(starts) ==
    /\ \E attrs \in WindowAttributes, ctx \in Contexts, start \in starts :
          /\ initial = Uninitialized(attrs, ctx, start)
          /\ cell = AdapterNew(initial)
          /\ clock = start
    /\ elapsed = <<>>
    /\ host = "new"
    /\ pc = "idle"
    /\ pending = NoPending
    /\ created = 0
    /\ live = {}
    /\ exits = 0
    /\ fault = "none"
    /\ result = NoResult
    /\ last = NoCall
    /\ firstErr = "none"
    /\ shutdown = NoShutdown

\* The run observed at one instant: time does not visibly pass.
Init == InitAt({0})

\* The run with a clock that advances.
InitClock == InitAt(StartTimes)

(***************************************************************************)
(* The host loop's lifecycle position after it has delivered a callback.   *)
(***************************************************************************)
HostAfter(h, cb, cause) ==
    CASE cb = "new_events" /\ cause = "Init" /\ h = "new" -> "started"
      [] cb = "resumed" -> "resumed"
      [] cb = "suspended" -> "suspended"
      [] cb = "exiting" -> "exited"
      [] OTHER -> h

\* Resumed::handle_window_event: the dt handed to render, <<>> if render is
\* not reached.  A failing redraw fails before render (resize, buffer_mut)
\* or after it (present).
handle_window_event_dt(self, event, fail, now) ==
    IF event # "RedrawRequested" THEN {<<>>}
    ELSE IF fail = "none" THEN {<<now - self.start_time>>}
    ELSE {<<>>, <<now - self.start_time>>}

\* What the callback hands to render, if anything.
RenderCalls(fallible_state, cb, cause, fail, now) ==
    IF fallible_state.ok /\ cb = "window_event"
          /\ fallible_state.state.phase = "Resumed"
    THEN handle_window_event_dt(fallible_state.state.payload, cause, fail, now)
    ELSE {<<>>}

(***************************************************************************)
(* A host callback, up to the point where the closure has run.             *)
(* `fail` is the outcome of the state-machine operation, if one is called. *)
(* `caught`: a panic either unwinds out of run_app or is caught at the     *)
(* host boundary, after which the loop goes on.                            *)
(***************************************************************************)
Deliver(cb, cause, fail, caught) ==
    /\ pc = "idle"
    /\ host' = HostAfter(host, cb, cause)
    /\ LET t == TakeableTake(cell) IN
       IF t.abort
       THEN /\ fault' = "poisoned"
            /\ last' = [cb |-> cb, cause |-> cause, before |-> cell,
                        op |-> "none", event |-> "none", exit |-> FALSE,
                        fault |-> "poisoned"]
            /\ pc' = IF caught THEN "idle" ELSE "aborted"
            /\ cell' = IF caught THEN t.cell ELSE Gone
            /\ live' = IF caught THEN live ELSE {}
            /\ UNCHANGED <<pending, created, exits, firstErr, elapsed>>
       ELSE LET r == AdapterClosure(t.val, cb, cause, fail, created, live) IN
            /\ r.created <= MaxWindows
            /\ cell' = t.cell
            /\ pending' = r
            /\ created' = r.created
            /\ live' = r.live
            /\ exits' = IF r.exit THEN exits + 1 ELSE exits
            /\ firstErr' = IF firstErr = "none" /\ r.op # "none" /\ ~r.val.ok
                           THEN r.val.err ELSE firstErr
            /\ last' = [cb |-> cb, cause |-> cause, before |-> cell,
                        op |-> r.op, event |-> r.event, exit |-> r.exit,
                        fault |-> "none"]
            /\ pc' = "closure"
            /\ fault' = fault
            /\ \E dt \in RenderCalls(t.val, cb, cause, fail, clock) :
                  elapsed' = IF dt = <<>> THEN elapsed ELSE dt
    /\ UNCHANGED <<result, shutdown, clock, initial>>

new_events ==
    \E cause \in StartCauses, fail \in {"none"} \cup Errors, caught \in BOOLEAN :
        Deliver("new_events", cause, fail, caught)

user_event ==
    \E fail \in {"none"} \cup Errors, caught \in BOOLEAN :
        Deliver("user_event", "none", fail, caught)

device_event ==
    \E fail \in {"none"} \cup Errors, caught \in BOOLEAN :
        Deliver("device_event", "none", fail, caught)

about_to_wait ==
    \E fail \in {"none"} \cup Errors, caught \in BOOLEAN :
        Deliver("about_to_wait", "none", fail, caught)

suspended ==
    \E fail \in {"none"} \cup Errors, caught \in BOOLEAN :
        Deliver("suspended", "none", fail, caught)

exiting ==
    \E fail \in {"none"} \cup Errors, caught \in BOOLEAN :
        Deliver("exiting", "none", fail, caught)

memory_warning ==
    \E fail \in {"none"} \cup Errors, caught \in BOOLEAN :
        Deliver("memory_warning", "none", fail, caught)

resumed ==
    \E fail \in {"none"} \cup Errors, caught \in BOOLEAN :
        Deliver("resumed", "none", fail, caught)

window_event ==
    \E event \in WindowEvents, fail \in {"none"} \cup Errors,
       caught \in BOOLEAN :
        Deliver("window_event", event, fail, caught)

\* Takeable::transition, the closure returned: self.0 = Some(f(..)).
TransitionStore ==
    /\ pc = "closure"
    /\ ~pending.abort
    /\ cell' = TakeableStore(pending.val)
    /\ pending' = NoPending
    /\ pc' = "idle"
    /\ UNCHANGED <<created, live, exits, fault, result, last, firstErr,
                   shutdown, clock, elapsed, host, initial>>

\* Variant: the unwinding puts the taken value back into the cell.
TransitionUnwind_restores ==
    /\ pc = "closure"
    /\ pending.abort
    /\ \E caught \in BOOLEAN :
          /\ pc' = IF caught THEN "idle" ELSE "aborted"
          /\ cell' = IF caught THEN last.before ELSE Gone
          /\ live' = IF caught THEN live ELSE {}
    /\ fault' = "invalid_transition"
    /\ last' = [last EXCEPT !.fault = "invalid_transition"]
    /\ pending' = NoPending
    /\ UNCHANGED <<created, exits, result, firstErr, shutdown, clock, elapsed,
                   host, initial>>

\* Takeable::transition, the closure panicked: nothing is stored.
TransitionUnwind ==
    /\ pc = "closure"
    /\ pending.abort
    /\ \E caught \in BOOLEAN :
          /\ pc' = IF caught THEN "idle" ELSE "aborted"
          /\ cell' = IF caught THEN cell ELSE Gone
          /\ live' = IF caught THEN live ELSE {}
    /\ fault' = "invalid_transition"
    /\ last' = [last EXCEPT !.fault = "invalid_transition"]
    /\ pending' = NoPending
    /\ UNCHANGED <<created, exits, result, firstErr, shutdown, clock, elapsed,
                   host, initial>>

(***************************************************************************)
(* run_app after the host loop:  event_loop.run_app(&mut app)?;            *)
(*                               Ok(app.exit())                            *)
(***************************************************************************)
\* Variant: the cell is read before the loop result is examined.
run_app_loop_error_reads_cell ==
    /\ pc = "idle"
    /\ \E e \in LoopErrors :
          /\ shutdown' = [loop |-> e, cell |-> cell]
          /\ LET x == AdapterExit(cell) IN
             IF x.abort
             THEN fault' = x.fault /\ pc' = "aborted" /\ result' = result
             ELSE /\ fault' = fault
                  /\ pc' = "returned"
                  /\ result' = [ok |-> FALSE, err |-> e]
    /\ cell' = Gone
    /\ live' = {}
    /\ UNCHANGED <<pending, created, exits, last, firstErr, clock, elapsed,
                   host, initial>>

run_app_loop_error ==
    /\ pc = "idle"
    /\ \E e \in LoopErrors :
          /\ result' = [ok |-> FALSE, err |-> e]
          /\ shutdown' = [loop |-> e, cell |-> cell]
    /\ pc' = "returned"
    /\ cell' = Gone
    /\ live' = {}
    /\ UNCHANGED <<pending, created, exits, fault, last, firstErr, clock,
                   elapsed, host, initial>>

run_app_exit ==
    /\ pc = "idle"
    /\ shutdown' = [loop |-> "ok", cell |-> cell]
    /\ LET x == AdapterExit(cell) IN
       IF x.abort
       THEN /\ fault' = x.fault
            /\ pc' = "aborted"
            /\ result' = result
       ELSE /\ fault' = fault
            /\ pc' = "returned"
            /\ result' = [ok |-> TRUE, val |-> x.val]
    /\ cell' = Gone
    /\ live' = {}
    /\ UNCHANGED <<pending, created, exits, last, firstErr, clock, elapsed,
                   host, initial>>

\* Time passes while the loop runs.
Tick ==
    /\ pc \in {"idle", "closure"}
    /\ clock < MaxClock
    /\ clock' = clock + 1
    /\ UNCHANGED <<cell, pc, pending, created, live, exits, fault, result,
                   last, firstErr, shutdown, elapsed, host, initial>>

Next ==
    \/ new_events
    \/ user_event
    \/ device_event
    \/ about_to_wait
    \/ suspended
    \/ exiting
    \/ memory_warning
    \/ resumed
    \/ window_event
    \/ TransitionStore
    \/ TransitionUnwind
    \/ run_app_loop_error
    \/ run_app_exit

Spec == Init /\ [][Next]_vars

NextClock == Next \/ Tick

SpecClock == InitClock /\ [][NextClock]_vars

(***************************************************************************)
(* A well-formed host: the first callback is new_events(Init), window      *)
(* events arrive only between a resumed and the next suspended, exiting is *)
(* delivered once, after the start signal, as the last callback, and the   *)
(* loop returns without error only after it.                               *)
(***************************************************************************)
HostAllows(h, cb, cause) ==
    CASE h = "new" -> cb = "new_events" /\ cause = "Init"
      [] h = "started" -> cb \in Callbacks \ {"window_event"}
      [] h = "resumed" -> cb \in Callbacks
      [] h = "suspended" -> cb \in Callbacks \ {"window_event"}
      [] OTHER -> FALSE

\* The callback just delivered is one the well-formed host may deliver.
WellFormedStep == HostAllows(host, last'.cb, last'.cause)

WellFormedCallback ==
    \/ new_events /\ WellFormedStep
    \/ user_event /\ WellFormedStep
    \/ device_event /\ WellFormedStep
    \/ about_to_wait /\ WellFormedStep
    \/ suspended /\ WellFormedStep
    \/ exiting /\ WellFormedStep
    \/ memory_warning /\ WellFormedStep
    \/ resumed /\ WellFormedStep
    \/ window_event /\ WellFormedStep

\* The loop returns normally only after the exiting callback.
LoopReturnsAfterExiting == host = "exited" /\ run_app_exit

NextWellFormed ==
    \/ WellFormedCallback
    \/ TransitionStore
    \/ run_app_loop_error
    \/ LoopReturnsAfterExiting

SpecWellFormed == Init /\ [][NextWellFormed]_vars

(***************************************************************************)
(* A cooperative host: well-formed, never fails at loop level, completes   *)
(* every callback, and once loop exit has been requested eventually        *)
(* delivers exiting and then returns.                                      *)
(***************************************************************************)
CooperativeExiting == exits > 0 /\ exiting /\ WellFormedStep

NextCooperative ==
    \/ WellFormedCallback
    \/ TransitionStore
    \/ LoopReturnsAfterExiting

SpecCooperative ==
    /\ Init
    /\ [][NextCooperative]_vars
    /\ WF_vars(TransitionStore)
    /\ SF_vars(CooperativeExiting)
    /\ WF_vars(LoopReturnsAfterExiting)

(***************************************************************************)
(* The host that delivers exactly new_events(Init), suspended, resumed,    *)
(* exiting and then returns.                                               *)
(***************************************************************************)
SequenceStart == host = "new" /\ new_events /\ last'.cause = "Init"
SequenceSuspend == host = "started" /\ suspended
SequenceResume == host = "suspended" /\ resumed
SequenceExit == host = "resumed" /\ exiting

NextSequence ==
    \/ SequenceStart
    \/ SequenceSuspend
    \/ SequenceResume
    \/ SequenceExit
    \/ TransitionStore
    \/ LoopReturnsAfterExiting

SpecSequence == InitClock /\ [][NextSequence]_vars

(***************************************************************************)
(* Vocabulary of the properties                                            *)
(***************************************************************************)
\* The closure of the callback recorded in `last` has just run on Ok(phase).
RanOnPhase == pc = "closure" /\ last.before.val.ok
BeforePhase == last.before.val.state.phase
ClosureReturnedOk == (~pending.abort) /\ pending.val.ok
AfterPhase == pending.val.state.phase

EventCallbacksResumed ==
    {"new_events", "user_event", "device_event", "about_to_wait",
     "memory_warning", "window_event"}
EventCallbacksSuspended == EventCallbacksResumed \ {"window_event"}

\* The rows of the transition table, as <<phase, callback, next phase>>;
\* the loop start signal is new_events with cause Init.
TableRows ==
    {<<"Uninitialized", "new_events", "Resumed">>}
    \cup {<<"Resumed", cb, "Resumed">> : cb \in EventCallbacksResumed}
    \cup {<<"Resumed", "suspended", "Suspended">>,
          <<"Resumed", "exiting", "Exited">>}
    \cup {<<"Suspended", cb, "Suspended">> : cb \in EventCallbacksSuspended}
    \cup {<<"Suspended", "resumed", "Resumed">>,
          <<"Suspended", "exiting", "Exited">>}

\* The two repeated lifecycle signals the Adapter hands back untouched.
RepeatedSignalRows ==
    {<<"Resumed", "resumed", "Resumed">>,
     <<"Suspended", "suspended", "Suspended">>}

LastTriple == <<BeforePhase, last.cb, AfterPhase>>

\* C1 (as stated): every callback that neither faults nor returns an error
\* takes the phase along a row of the transition table, and the only way
\* out of Uninitialized is new_events with cause Init.
C1_OnlyTableRows ==
    (RanOnPhase /\ ClosureReturnedOk) =>
        /\ LastTriple \in TableRows
        /\ (BeforePhase = "Uninitialized" => last.cause = "Init")

\* C1 (amended): every callback that neither faults nor returns an error
\* takes the phase along a row of the transition table or is a repeated
\* lifecycle signal (resumed while Resumed, suspended while Suspended), which
\* keeps the phase and its payload and invokes no operation; Uninitialized is
\* left only by new_events with cause Init, no callback produces
\* Uninitialized and none produces a phase out of Exited.
C1_TableRowsOrRepeatedSignal ==
    (RanOnPhase /\ ClosureReturnedOk) =>
        /\ LastTriple \in TableRows \cup RepeatedSignalRows
        /\ (LastTriple \in RepeatedSignalRows =>
               /\ last.op = "none"
               /\ pending.val = last.before.val)
        /\ (BeforePhase = "Uninitialized" =>
               last.cause = "Init" /\ last.op = "initialize")
        /\ AfterPhase # "Uninitialized"
        /\ BeforePhase # "Exited"

C1_Witness ==
    /\ RanOnPhase /\ ClosureReturnedOk
    /\ LastTriple = <<"Resumed", "resumed", "Resumed">>

\* C2: once an operation has returned an application error e, no later step
\* invokes an operation or acquires or releases a window, every closure that
\* runs returns Err(e) untouched, the cell at rest holds exactly Err(e), and
\* the application result read at shutdown is Err(e).
C2_FirstErrorIsFinal ==
    [][firstErr # "none" =>
        /\ created' = created
        /\ live' = live
        /\ (pc' = "closure" =>
               /\ last'.op = "none"
               /\ ~pending'.abort
               /\ pending'.val = Err(firstErr))
        /\ (pc' = "idle" => cell' = Some(Err(firstErr)))
        /\ (shutdown'.loop = "ok" =>
               pc' = "returned" /\ result' = [ok |-> TRUE, val |-> Err(firstErr)])
      ]_vars

C2_Witness ==
    /\ firstErr = "e1"
    /\ pc = "returned"
    /\ result = [ok |-> TRUE, val |-> Err("e1")]
    /\ last.cb = "resumed"
    /\ last.before = Some(Err("e1"))
    /\ created = 1

\* The phase/callback pairs for which the transition table has no row.
UndefinedPairsAsStated ==
    ({"Uninitialized"} \X (Callbacks \ {"new_events"}))
    \cup {<<"Suspended", "window_event">>, <<"Suspended", "suspended">>,
          <<"Resumed", "resumed">>}
    \cup ({"Exited"} \X Callbacks)

FaultingPairs ==
    UndefinedPairsAsStated \ {<<"Suspended", "suspended">>, <<"Resumed", "resumed">>}

UndefinedHere(pairs) ==
    \/ <<BeforePhase, last.cb>> \in pairs
    \/ BeforePhase = "Uninitialized" /\ last.cb = "new_events"
                                     /\ last.cause # "Init"

\* C3 (as stated): every phase/callback pair without a row in the table,
\* including suspended while Suspended and resumed while Resumed, raises the
\* invalid-transition fault and stores no phase value.
C3_UndefinedPairsFault ==
    /\ (RanOnPhase /\ UndefinedHere(UndefinedPairsAsStated)) =>
           pending.abort /\ cell = Empty
    /\ (pc = "idle" /\ last.cb # "none" /\ last.before.tag = "Some"
          /\ last.before.val.ok
          /\ UndefinedHere(UndefinedPairsAsStated)) =>
           last.fault = "invalid_transition" /\ cell = Empty

\* C3 (amended): every callback other than new_events(Init) while
\* Uninitialized, a window event while Suspended and every callback while
\* Exited raise the invalid-transition fault, invoke no operation and store
\* no phase value (the cell is left Empty); suspended while Suspended and
\* resumed while Resumed do not fault: the same phase value is stored back.
C3_FaultingPairsFault ==
    /\ (RanOnPhase /\ UndefinedHere(FaultingPairs)) =>
           pending.abort /\ cell = Empty /\ last.op = "none"
    /\ (pc = "idle" /\ last.cb # "none" /\ last.before.tag = "Some"
          /\ last.before.val.ok) =>
           IF UndefinedHere(FaultingPairs)
           THEN last.fault = "invalid_transition" /\ cell = Empty
           ELSE last.fault = "none" /\ cell.tag = "Some"
    /\ (pc = "idle" /\ last.cb # "none" /\ last.before.tag = "Some"
          /\ last.before.val.ok
          /\ <<BeforePhase, last.cb>> \in
                {<<"Suspended", "suspended">>, <<"Resumed", "resumed">>}) =>
           cell = last.before

C3_Witness ==
    /\ pc = "idle"
    /\ last.cb = "new_events" /\ last.cause = "Poll"
    /\ last.before.tag = "Some" /\ last.before.val.ok
    /\ BeforePhase = "Uninitialized"
    /\ last.fault = "invalid_transition"
    /\ cell = Empty

\* C4: a window event is handed to handle only while the phase is Resumed;
\* window_event while Uninitialized, Suspended or Exited raises the
\* invalid-transition fault, invokes no operation and never leaves the phase
\* value in the cell.
C4_WindowEventOnlyResumed ==
    /\ (pc = "closure" /\ last.event = "WindowEvent") =>
           last.before.val.ok /\ BeforePhase = "Resumed"
    /\ (RanOnPhase /\ last.cb = "window_event" /\ BeforePhase # "Resumed") =>
           pending.abort /\ last.op = "none" /\ cell = Empty
    /\ (pc = "idle" /\ last.cb = "window_event" /\ last.before.tag = "Some"
          /\ last.before.val.ok /\ BeforePhase # "Resumed") =>
           last.fault = "invalid_transition" /\ cell = Empty

C4_Witness ==
    /\ pc = "idle"
    /\ last.cb = "window_event"
    /\ last.before.tag = "Some" /\ last.before.val.ok
    /\ BeforePhase = "Suspended"
    /\ last.fault = "invalid_transition"

\* C5: once the cell holds Ok(Exited), every callback raises the
\* invalid-transition fault and invokes no state-machine operation.
C5_ExitedIsTerminal ==
    [][(pc = "idle" /\ cell.tag = "Some" /\ cell.val.ok
          /\ cell.val.state.phase = "Exited" /\ pc' = "closure") =>
         /\ pending'.abort
         /\ last'.op = "none"
         /\ created' = created
         /\ exits' = exits
      ]_vars

C5_Witness ==
    /\ pc = "idle"
    /\ last.cb = "exiting"
    /\ last.before.tag = "Some" /\ last.before.val.ok
    /\ BeforePhase = "Exited"
    /\ last.fault = "invalid_transition"

\* C6: when the host loop returns without error and the cell holds Ok of a
\* phase other than Exited, the shutdown read faults and run_app returns
\* nothing; an Exited payload returned by run_app is the one an exit
\* operation produced in the last callback.
C6_ShutdownFaultsUnlessExited ==
    /\ (shutdown.loop = "ok" /\ shutdown.cell.tag = "Some"
          /\ shutdown.cell.val.ok
          /\ shutdown.cell.val.state.phase # "Exited") =>
           pc = "aborted" /\ fault = "invalid_transition" /\ result = NoResult
    /\ (result # NoResult /\ result.ok /\ result.val.ok) =>
           /\ last.cb = "exiting" /\ last.op = "exit"
           /\ shutdown.cell =
                 Some(Ok(State("Exited", result.val.payload)))

C6_Witness ==
    /\ shutdown.loop = "ok"
    /\ shutdown.cell.tag = "Some" /\ shutdown.cell.val.ok
    /\ shutdown.cell.val.state.phase = "Suspended"
    /\ pc = "aborted"

\* C7: run_app returns Err(loop error) when the host loop fails; otherwise
\* Ok(Ok(p)) when the cell ends as Ok(Exited(p)); otherwise Ok(Err(e)) when
\* the cell holds Err(e), without a fault, whichever operation returned e;
\* and it returns in no other case.
C7_RunAppOutcomes ==
    /\ shutdown.loop \in LoopErrors =>
           pc = "returned" /\ result = [ok |-> FALSE, err |-> shutdown.loop]
    /\ (shutdown.loop = "ok" /\ shutdown.cell.tag = "Some") =>
           IF ~shutdown.cell.val.ok
           THEN /\ pc = "returned"
                /\ result = [ok |-> TRUE, val |-> Err(shutdown.cell.val.err)]
                /\ shutdown.cell.val.err = firstErr
                /\ fault = "none"
           ELSE IF shutdown.cell.val.state.phase = "Exited"
           THEN /\ pc = "returned"
                /\ result = [ok |-> TRUE,
                             val |-> [ok |-> TRUE,
                                      payload |-> shutdown.cell.val.state.payload]]
           ELSE pc # "returned"
    /\ (shutdown.loop = "ok" /\ shutdown.cell.tag # "Some") => pc # "returned"
    /\ pc = "returned" <=> result # NoResult

C7_Witness ==
    /\ pc = "returned"
    /\ last.op = "exit"
    /\ firstErr = "e2"
    /\ result = [ok |-> TRUE, val |-> Err("e2")]

\* C8: when the host loop returns a loop-level error, run_app returns that
\* error and raises no fault, whatever the cell holds.
C8_LoopErrorPropagated ==
    [][(shutdown.loop = "running" /\ shutdown'.loop \in LoopErrors) =>
         /\ pc' = "returned"
         /\ result' = [ok |-> FALSE, err |-> shutdown'.loop]
         /\ fault' = fault
      ]_vars

C8_Witness ==
    /\ pc = "returned"
    /\ shutdown.loop \in LoopErrors
    /\ result = [ok |-> FALSE, err |-> shutdown.loop]
    /\ shutdown.cell.tag = "Some" /\ shutdown.cell.val.ok
    /\ shutdown.cell.val.state.phase = "Resumed"

\* C9: when the closure of a transition aborts, the cell is left Empty; a
\* transition or get on an Empty cell raises a fault without running a
\* closure, invoking an operation or producing a result, and the cell never
\* holds a value again.
C9_PoisonedCellFaults ==
    [][/\ (pc = "closure" /\ pending.abort) =>
              (cell = Empty /\ cell' \in {Empty, Gone})
       /\ (pc = "idle" /\ cell = Empty /\ shutdown'.loop \notin LoopErrors) =>
              /\ fault' = "poisoned"
              /\ pc' \in {"idle", "aborted"}
              /\ cell' \in {Empty, Gone}
              /\ pending' = pending
              /\ result' = NoResult
              /\ created' = created /\ exits' = exits
              /\ (last' # last => last'.op = "none")
      ]_vars

C9_Witness ==
    /\ shutdown.loop = "ok"
    /\ shutdown.cell = Empty
    /\ pc = "aborted"
    /\ fault = "poisoned"
    /\ last.fault = "poisoned"

Payloads(phase) ==
    CASE phase = "Uninitialized" ->
            {Uninitialized(a, c, t) : a \in WindowAttributes, c \in Contexts,
                                      t \in StartTimes}
      [] phase = "Suspended" ->
            {Suspended(a, c, t) : a \in WindowAttributes, c \in Contexts,
                                  t \in StartTimes}
      [] phase = "Resumed" ->
            {Resumed(a, c, t, w) : a \in WindowAttributes, c \in Contexts,
                                   t \in StartTimes, w \in 1..created}
      [] phase = "Exited" -> {Exited(c) : c \in Contexts}

WellFormed(v) ==
    IF v.ok
    THEN /\ v.state.phase \in Phases
         /\ v.state.payload \in Payloads(v.state.phase)
    ELSE v.err \in Errors

\* C10: between two callbacks, as long as no fault has occurred, the cell is
\* occupied by one well-formed value: Ok of one of the four phases with that
\* phase's payload, or Err of an application error; the cell is Empty only
\* while a transition closure is running (or after a fault).
C10_CellOccupiedAtRest ==
    /\ (pc = "idle" /\ fault = "none") =>
           cell.tag = "Some" /\ WellFormed(cell.val)
    /\ cell = Empty => (pc = "closure" \/ fault # "none")

C10_Witness ==
    /\ pc = "idle" /\ fault = "none"
    /\ cell.tag = "Some" /\ cell.val.ok
    /\ cell.val.state.phase = "Resumed"
    /\ cell.val.state.payload.window = 2
    /\ last.op = "handle"

\* The closure of the callback recorded in `last` has just run on a cell
\* that held a stored application error.
RanOnError == pc = "closure" /\ ~last.before.val.ok

\* C11 (as stated): after a transition error has been stored in the cell,
\* every callback still delivered raises the invalid-transition fault.
C11_CallbackAfterErrorFaults ==
    /\ RanOnError => pending.abort
    /\ (pc = "idle" /\ last.before.tag = "Some" /\ ~last.before.val.ok) =>
           last.fault # "none"

\* C11 (amended): after a transition error has been stored in the cell,
\* every callback still delivered raises no fault: it invokes no operation,
\* requests no loop exit, acquires no window and stores the same error back.
C11_CallbackAfterErrorIsNoOp ==
    /\ RanOnError =>
           /\ ~pending.abort
           /\ pending.val = last.before.val
           /\ last.op = "none"
           /\ ~last.exit
           /\ pending.created = created
    /\ (pc = "idle" /\ last.before.tag = "Some" /\ ~last.before.val.ok) =>
           /\ last.fault = "none"
           /\ fault = "none"
           /\ cell = last.before

C11_Witness ==
    /\ pc = "idle"
    /\ last.cb = "window_event"
    /\ last.before = Some(Err("e2"))
    /\ cell = Some(Err("e2"))
    /\ host = "suspended"

\* C12: exiting delivered while the phase is still Uninitialized raises the
\* invalid-transition fault, invokes no exit operation and stores nothing;
\* a run that faulted before it ever left Uninitialized never holds an
\* Exited value and run_app returns no application result for it.
C12_ExitBeforeStartFaults ==
    /\ (RanOnPhase /\ last.cb = "exiting" /\ BeforePhase = "Uninitialized") =>
           pending.abort /\ last.op = "none" /\ cell = Empty
    /\ (pc = "idle" /\ last.cb = "exiting" /\ last.before.tag = "Some"
          /\ last.before.val.ok /\ BeforePhase = "Uninitialized") =>
           last.fault = "invalid_transition" /\ cell = Empty
    /\ (fault # "none" /\ created = 0 /\ firstErr = "none") =>
           /\ cell \in {Empty, Gone}
           /\ (result # NoResult => ~result.ok)

C12_Witness ==
    /\ pc = "aborted"
    /\ shutdown.loop = "ok"
    /\ fault = "poisoned"
    /\ last.cb = "exiting"
    /\ last.fault = "invalid_transition"
    /\ last.before.tag = "Some" /\ last.before.val.ok
    /\ BeforePhase = "Uninitialized"

\* C13: a window is acquired only by initialize, called by new_events(Init)
\* on Uninitialized, and by resume, called by resumed on Suspended; each
\* acquires exactly one window, which the new Resumed payload owns; no other
\* callback/phase combination and no step of the Adapter itself acquires one.
C13_WindowAcquiredOnlyOnInitializeOrResume ==
    [][created' # created =>
         /\ created' = created + 1
         /\ pc = "idle" /\ pc' = "closure"
         /\ last'.before.val.ok
         /\ \/ /\ last'.op = "initialize"
               /\ last'.cb = "new_events" /\ last'.cause = "Init"
               /\ last'.before.val.state.phase = "Uninitialized"
            \/ /\ last'.op = "resume"
               /\ last'.cb = "resumed"
               /\ last'.before.val.state.phase = "Suspended"
         /\ pending'.val.ok
         /\ pending'.val.state.phase = "Resumed"
         /\ pending'.val.state.payload.window = created'
         /\ live' = live \cup {created'}
      ]_vars

C13_Witness ==
    /\ pc = "closure"
    /\ last.op = "resume"
    /\ created = 2
    /\ pending.val.ok
    /\ pending.val.state.payload.window = 2

\* C14: every transition that yields a phase other than Exited carries the
\* start instant of the Uninitialized payload forward unchanged; the dt of
\* each redraw is the current clock value minus that original instant, and
\* the dts of successive redraws never decrease.
C14_StartInstantPreserved ==
    [][/\ (pc' = "closure" /\ last'.before.val.ok /\ ~pending'.abort
             /\ pending'.val.ok /\ pending'.val.state.phase # "Exited") =>
              /\ last'.before.val.state.payload.start_time = initial.start_time
              /\ pending'.val.state.payload.start_time = initial.start_time
       /\ (pc = "idle" /\ pc' = "closure" /\ last'.cb = "window_event"
             /\ last'.cause = "RedrawRequested" /\ last'.op = "handle"
             /\ pending'.val.ok) =>
              elapsed' = <<clock - initial.start_time>>
       /\ elapsed' # elapsed =>
              /\ elapsed' = <<clock - initial.start_time>>
              /\ (elapsed # <<>> => elapsed'[1] >= elapsed[1])
      ]_vars

C14_Witness ==
    /\ pc = "closure"
    /\ last.cb = "window_event" /\ last.cause = "RedrawRequested"
    /\ ~pending.abort /\ pending.val.ok
    /\ initial.start_time = 1
    /\ clock = 2
    /\ elapsed = <<1>>
    /\ created = 2

\* C15: after exactly new_events(Init), suspended, resumed, exiting, every
\* operation having succeeded, the cell holds Ok(Exited(p)) where p is
\* exactly the context passed in; p holds no window, two windows were
\* acquired and both are released, and run_app returns Ok(Ok(p)).
C15_SequenceEndsExited ==
    /\ (host = "exited" /\ pc = "idle" /\ firstErr = "none") =>
           /\ cell = Some(Ok(State("Exited", Exited(initial.context))))
           /\ DOMAIN cell.val.state.payload = {"context"}
           /\ created = 2
           /\ live = {}
           /\ fault = "none"
    /\ (pc \in {"returned", "aborted"} /\ firstErr = "none") =>
           /\ pc = "returned"
           /\ result = [ok |-> TRUE,
                        val |-> [ok |-> TRUE,
                                 payload |-> Exited(initial.context)]]
           /\ live = {}

C15_Witness ==
    /\ host = "exited" /\ pc = "idle" /\ firstErr = "none"
    /\ initial.context = "c2"
    /\ cell = Some(Ok(State("Exited", Exited("c2"))))
    /\ created = 2

\* C16: under a well-formed host no invalid-transition fault and no
\* poisoned-cell fault occurs, whichever operations fail; the start-up pair
\* new_events(Init), resumed does not fault; and when the loop returns
\* without a loop-level error run_app returns the Exited payload or the
\* application error.
C16_WellFormedHostNeverFaults ==
    /\ fault = "none"
    /\ pc # "aborted"
    /\ (pc = "closure" => ~pending.abort)
    /\ (pc = "idle" => cell.tag = "Some")
    /\ (last.cb = "resumed" /\ last.before.tag = "Some"
          /\ last.before.val.ok /\ BeforePhase = "Resumed") =>
           last.fault = "none" /\ last.op = "none"
    /\ shutdown.loop = "ok" =>
           /\ pc = "returned"
           /\ result.ok
           /\ IF firstErr = "none"
              THEN result.val = [ok |-> TRUE,
                                 payload |-> Exited(initial.context)]
              ELSE result.val = Err(firstErr)

C16_Witness ==
    /\ pc = "idle"
    /\ host = "resumed"
    /\ last.cb = "resumed"
    /\ last.before.tag = "Some" /\ last.before.val.ok
    /\ BeforePhase = "Resumed"
    /\ cell = last.before
    /\ created = 1

\* C17: whenever an error is about to be stored or is stored in the cell,
\* loop exit has already been requested: the request is made in the callback
\* whose operation failed, before the closure returns the error.
C17_ExitRequestedBeforeErrorStored ==
    /\ (pc = "closure" /\ ~pending.abort /\ ~pending.val.ok) => exits >= 1
    /\ (pc = "closure" /\ last.op # "none" /\ ~pending.val.ok) => last.exit
    /\ (cell.tag = "Some" /\ ~cell.val.ok) => exits >= 1

C17_Witness ==
    /\ pc = "closure"
    /\ last.op = "suspend"
    /\ ~pending.abort /\ pending.val = Err("e1")
    /\ last.exit
    /\ exits = 1
    /\ cell = Empty

\* C18: the Adapter requests loop exit only in a callback whose operation
\* returned an error, and a callback that invokes no operation acquires no
\* window; over a run it requests exit at most once, exactly when some
\* operation has failed, and never when every operation succeeds.
C18_ExitRequestedOnlyOnError ==
    [][/\ exits' # exits =>
              /\ exits' = exits + 1
              /\ pc' = "closure"
              /\ last'.op # "none"
              /\ ~pending'.abort /\ ~pending'.val.ok
       /\ (pc' = "closure" /\ last'.op = "none") =>
              created' = created /\ exits' = exits
       /\ exits' <= 1
       /\ (exits' = 1) <=> (firstErr' # "none")
      ]_vars

C18_Witness ==
    /\ exits = 1
    /\ pc = "closure"
    /\ last.cb = "exiting"
    /\ last.before = Some(Err("e1"))
    /\ ~last.exit

\* C19: with a cooperative host, once an operation has returned an
\* application error e, run_app eventually returns Ok(Err(e)); and once an
\* exit operation has succeeded in the exiting callback, run_app eventually
\* returns Ok(Ok(p)) with the payload p that operation produced.
C19_CooperativeHostRunReturns ==
    /\ \A e \in Errors :
          (firstErr = e) ~>
              (pc = "returned" /\ result = [ok |-> TRUE, val |-> Err(e)])
    /\ \A ctx \in Contexts :
          (pc = "closure" /\ last.op = "exit" /\ pending.val = Ok(State("Exited", Exited(ctx)))) ~>
              (pc = "returned"
                 /\ result = [ok |-> TRUE,
                              val |-> [ok |-> TRUE, payload |-> Exited(ctx)]])

C19_Witness ==
    /\ pc = "returned"
    /\ firstErr = "e1"
    /\ result = [ok |-> TRUE, val |-> Err("e1")]
    /\ last.cb = "exiting"
    /\ last.before.tag = "Some" /\ last.before.val = Err("e1")
    /\ exits = 1

\* C20: a window is held exactly while the Resumed payload exists: at most
\* one window is live at any time; between callbacks the live window is the
\* one owned by Ok(Resumed) in the cell and there is none when the cell
\* holds Uninitialized, Suspended, Exited, an error or nothing; suspend and
\* exit release it; resume acquires a new one with the preserved attributes.
C20_WindowHeldIffResumed ==
    /\ Cardinality(live) <= 1
    /\ pc = "idle" =>
           IF cell.tag = "Some" /\ cell.val.ok
                 /\ cell.val.state.phase = "Resumed"
           THEN live = {cell.val.state.payload.window}
           ELSE live = {}
    /\ (pc = "closure" /\ ~pending.abort) =>
           IF pending.val.ok /\ pending.val.state.phase = "Resumed"
           THEN live = {pending.val.state.payload.window}
           ELSE live = {}
    /\ (pc = "closure" /\ pending.abort) => live = {}
    /\ pc \in {"returned", "aborted"} => live = {}
    /\ (pc = "closure" /\ last.op = "resume" /\ pending.val.ok) =>
           /\ pending.val.state.payload.window = created
           /\ pending.val.state.payload.window_attributes =
                 initial.window_attributes
           /\ last.before.val.state.payload.window_attributes =
                 initial.window_attributes

C20_Witness ==
    /\ pc = "idle"
    /\ last.op = "suspend"
    /\ cell.tag = "Some" /\ cell.val.ok
    /\ cell.val.state.phase = "Suspended"
    /\ created = 2
    /\ live = {}

\* The cell holds Ok of the given phase.
CellHoldsPhase(c, phase) ==
    c.tag = "Some" /\ c.val.ok /\ c.val.state.phase = phase

\* A resumed callback on a Resumed cell or a suspended callback on a
\* Suspended cell.
RepeatedSignal(cb, c) ==
    \/ cb = "resumed" /\ CellHoldsPhase(c, "Resumed")
    \/ cb = "suspended" /\ CellHoldsPhase(c, "Suspended")

\* C21: initialize is invoked only by new_events(Init) on the Uninitialized
\* cell the run started with, before any operation has run, so at most once;
\* the phase never becomes Uninitialized again; and resumed while Resumed or
\* suspended while Suspended hands the same payload back, invokes no
\* operation, requests no exit and acquires or releases no window.
C21_InitializeOnceRepeatsAreNoOps ==
    [][/\ (pc = "idle" /\ pc' = "closure" /\ last'.op = "initialize") =>
              /\ last'.cb = "new_events" /\ last'.cause = "Init"
              /\ cell = AdapterNew(initial)
              /\ created = 0 /\ firstErr = "none" /\ exits = 0
              /\ last.op = "none"
              /\ (created' = 1 \/ firstErr' # "none")
       /\ CellHoldsPhase(cell', "Uninitialized") => cell' = cell
       /\ (pc' = "closure" /\ ~pending'.abort /\ pending'.val.ok) =>
              pending'.val.state.phase # "Uninitialized"
       /\ (pc = "idle" /\ last'.cb # last.cb
             /\ RepeatedSignal(last'.cb, cell)) => pc' = "closure"
       /\ (pc = "idle" /\ pc' = "closure"
             /\ RepeatedSignal(last'.cb, cell)) =>
              /\ ~pending'.abort
              /\ pending'.val = cell.val
              /\ last'.op = "none"
              /\ created' = created /\ live' = live /\ exits' = exits
       /\ (pc = "closure" /\ pc' = "idle"
             /\ RepeatedSignal(last.cb, last.before)) =>
              /\ cell' = last.before
              /\ created' = created /\ live' = live /\ exits' = exits
              /\ fault' = fault
      ]_vars

C21_Witness ==
    /\ pc = "idle"
    /\ last.cb = "resumed"
    /\ last.before = Some(Ok(State("Resumed",
                        Resumed(initial.window_attributes, initial.context,
                                initial.start_time, 1))))
    /\ cell = last.before
    /\ host = "resumed"
    /\ created = 1 /\ live = {1}
    /\ fault = "none"

\* C22: invalid_transition is raised inside the closure, on an Ok phase
\* value already taken out of the cell, so the cell is Empty when it is
\* raised and stays so; if execution continues, every later callback raises
\* the poisoned-cell fault without running a closure, the shutdown read
\* raises it too and run_app returns nothing, and the phase value held
\* before the fault is never in the cell, a closure or a result again.
C22_InvalidTransitionPoisonsCell ==
    [][/\ (pc = "closure" /\ pending.abort) =>
              /\ cell = Empty
              /\ last.before.tag = "Some" /\ last.before.val.ok
              /\ fault' = "invalid_transition"
              /\ last'.fault = "invalid_transition"
              /\ pc' \in {"idle", "aborted"}
              /\ (pc' = "idle" => cell' = Empty)
       /\ (pc = "idle" /\ fault # "none") =>
              /\ cell = Empty
              /\ pc' # "closure"
              /\ pending' = NoPending
              /\ cell' \in {Empty, Gone}
              /\ created' = created /\ exits' = exits
              /\ (last' # last =>
                     last'.fault = "poisoned" /\ last'.op = "none"
                        /\ last'.before = Empty /\ fault' = "poisoned")
              /\ (shutdown'.loop = "ok" =>
                     /\ shutdown'.cell = Empty
                     /\ fault' = "poisoned"
                     /\ pc' = "aborted"
                     /\ result' = NoResult)
       /\ fault # "none" =>
              /\ cell'.tag # "Some"
              /\ (result' # NoResult => ~result'.ok)
      ]_vars

C22_Witness ==
    /\ pc = "aborted"
    /\ shutdown.loop = "ok"
    /\ shutdown.cell = Empty
    /\ fault = "poisoned"
    /\ last.fault = "invalid_transition"
    /\ last.cb = "window_event"
    /\ last.before.val.ok
    /\ last.before.val.state.phase = "Suspended"
    /\ result = NoResult

====
